---------------------------- MODULE Spec2Model ----------------------------
(***************************************************************************)
(* Model of scripts/generate_synth_ideas.py: the script that writes a      *)
(* header row and one data row per id of ten domains to synth_ideas.csv.   *)
(*                                                                         *)
(* Strings that the script only copies are TLA+ strings.  Strings that it  *)
(* builds are sequences of their pieces: an f-string is the tuple of its   *)
(* literal and interpolated parts, ";".join(xs) is xs with ";" between     *)
(* the elements, and str.lower() of a prefix is the prefix tagged as       *)
(* lowered.  The domain keys are also given as character sequences, so     *)
(* that the substring test of line 113 is computed.                        *)
(***************************************************************************)
EXTENDS Naturals, Sequences, FiniteSets, TLC

(***************************************************************************)
(* domains (lines 6-67): the dict in insertion order, which is the order   *)
(* domains.items() iterates in; the key is the field name.                 *)
(***************************************************************************)
domains ==
  <<
    [ name |-> "computer_history",
      range |-> << 1, 100 >>,
      prefixes |->
        << "Modem", "Floppy", "CRT", "Dial-Up", "Dot Matrix", "Punch Card", "ENIAC", "BBS",
           "Hard Drive", "Serial", "Parallel", "Vacuum Tube", "Transistor", "Calculator", "Atari",
           "Teletext", "Fax", "Boot", "Command Line", "Tape", "Memory", "Network", "CPU",
           "Sinclair", "TRS-80", "Commodore", "BBC Micro", "Apple II", "Plotter", "OCR",
           "Paper Tape", "Telex", "Morse", "Telegraph", "Rectifier", "Triode", "Cathode",
           "Phosphor", "Scan Line", "NTSC", "Magnetic", "Ferrite", "Spark Gap", "Crystal Radio",
           "Phonograph", "Shellac", "Wax Cylinder", "Bakelite", "PCB Trace", "Solder",
           "Potentiometer", "Stepper", "Servo", "PWM", "Capacitor", "Transistor", "Diode", "MOSFET",
           "Zener", "Thermistor", "Photoresistor", "Solar Cell", "LED", "Optocoupler", "LDR",
           "Tape Saturation", "Demagnetization", "Hysteresis", "Eddy Current", "Transformer", "Y2K",
           "Blue Screen", "Defrag", "Dial Tone", "Touch Tone", "Busy Signal", "Ring Cycle",
           "Off Hook", "Area Code", "Long Distance", "Rotary", "Phone Booth", "Answering Machine",
           "Cordless", "Acoustic Coupler", "Party Line", "Operator", "Time Announce",
           "Weather Service", "Emergency", "Payphone", "Phone Card", "Voicemail", "Conference" >>,
      synthesis_types |->
        << "fm", "subtractive", "wavetable", "granular", "physical_modeling", "additive",
           "sample_based", "feedback", "noise", "hybrid" >>,
      genres |->
        << "Retro", "Glitch", "Experimental", "Lo-Fi", "Industrial", "Ambient", "Chiptune",
           "Digital" >> ],
    [ name |-> "vintage_synths",
      range |-> << 101, 200 >>,
      prefixes |->
        << "Moog", "Buchla", "ARP", "Oberheim", "Prophet", "Juno", "Jupiter", "TB-303", "TR-808",
           "TR-909", "Fairlight", "Synclavier", "PPG", "DX", "MS-20", "Odyssey", "Serge", "EMS",
           "Korg", "Roland", "Sequential", "Ensoniq", "Kurzweil", "Waldorf", "Access", "Clavia",
           "Novation", "Arturia", "DSI", "Elektron", "Teenage", "Modal", "Mutable", "Make Noise",
           "Intellijel", "Doepfer", "Modcan", "Analogue", "Cwejman", "Metasonix", "Macbeth",
           "Studio Electronics", "Vermona", "MFB", "Dreadbox", "Erica", "Pittsburgh", "4ms",
           "Tiptop", "WMD", "Qu-Bit", "Noise Engineering", "Joranalogue", "Instruo", "Frap",
           "Verbos", "Endorphin", "Steady State", "Rossum", "Livestock", "ALM", "After Later",
           "Blue Lantern", "Circuit Abbey", "Dove", "EMW", "Future Sound", "Gezeiten",
           "Happy Nerding", "Industrial Music", "Joranalogue", "Kammerl", "LPZW", "Manhattan",
           "New Systems", "Olegtron", "Paratek", "Qubit", "RYO", "SSF", "Tesseract", "Ultrasound",
           "Void", "WMD", "Xaoc", "York", "Zlob", "Atomosynth", "Behringer", "Cre8audio", "Error",
           "Folktek", "G-Storm" >>,
      synthesis_types |->
        << "hybrid", "subtractive", "fm", "wavetable", "additive", "feedback", "noise", "granular",
           "sample_based", "physical_modeling" >>,
      genres |->
        << "Synthwave", "Experimental", "Drone", "Ambient", "Techno", "Industrial", "Acid",
           "Progressive" >> ],
    [ name |-> "natural_phenomena",
      range |-> << 201, 300 >>,
      prefixes |->
        << "Thunder", "Aurora", "Rain", "Wind", "Hurricane", "Blizzard", "Earthquake", "Volcanic",
           "Geothermal", "Crystal", "Cave", "Mineral", "Tectonic", "Lava", "Stalactite", "Ocean",
           "Tsunami", "Deep Sea", "Waterfall", "Glacier", "River", "Frozen Lake", "Whirlpool",
           "Ice", "Heartbeat", "Breath", "Neural", "Neuron", "Cell", "DNA", "Bacterial", "Amino",
           "Mitochondria", "Protein", "Organ", "Bone", "Forest", "Desert", "Swamp", "Rainforest",
           "Grassland", "Reef", "Fungal", "Coral", "Ant Colony", "Wolf Pack", "Pulsar",
           "Solar Wind", "Black Hole", "Supernova", "Quasar", "Neutron", "Cosmic", "Magnetar",
           "Zodiacal", "Chemical", "Catalyst", "Exothermic", "Crystal", "Oxidation", "Fermentation",
           "Polymer", "Photosynthesis", "Combustion", "Radioactive", "Entropy", "Wave", "Harmonic",
           "Frequency", "Phase", "Doppler", "Acoustic", "Overtone", "Spring", "Summer", "Autumn",
           "Winter", "Thaw", "Monsoon", "Dry Season", "Permafrost", "Tidal", "Spring Tide",
           "Neap Tide", "Rip Current", "Undertow", "Ebb Flow", "Coastline", "River Meander",
           "Sediment", "Canyon", "Dune", "Landslide", "Weathering", "Fractal", "Spiral",
           "Fibonacci", "Sunflower" >>,
      synthesis_types |->
        << "fm", "subtractive", "wavetable", "granular", "physical_modeling", "additive",
           "feedback", "noise", "hybrid", "sample_based" >>,
      genres |->
        << "Ambient", "Dark Ambient", "Experimental", "Drone", "Cinematic", "Meditative", "Natural",
           "Ethereal" >> ],
    [ name |-> "industrial",
      range |-> << 301, 400 >>,
      prefixes |->
        << "Gear", "Piston", "Turbine", "Conveyor", "Welding", "Pneumatic", "Steam", "Furnace",
           "Jackhammer", "Transformer", "Relay", "Valve", "Grinding", "Chain", "Hydraulic", "Drill",
           "Stamping", "Factory", "Demolition", "Engine", "Motor", "Compressor", "Electromagnetic",
           "Siren", "Saw Blade", "Forging", "Magnetic", "Electrical", "Air Brake", "Compression",
           "Pulse", "Speed Ramp", "Clock", "Rotor", "Spindle", "Lathe", "Press", "Roller",
           "Conveyor", "Hoist", "Crane", "Winch", "Pulley", "Lever", "Cam", "Crank", "Flywheel",
           "Governor", "Clutch", "Brake", "Bearing", "Bushing", "Gasket", "Seal", "Pump", "Fan",
           "Blower", "Compressor", "Turbine", "Generator", "Alternator", "Dynamo", "Motor",
           "Engine", "Boiler", "Condenser", "Heat Exchanger", "Radiator", "Cooler", "Heater",
           "Furnace", "Kiln", "Oven", "Dryer", "Mixer", "Agitator", "Centrifuge", "Filter",
           "Separator", "Crusher", "Grinder", "Mill", "Shredder", "Chipper", "Cutter", "Slicer",
           "Chopper", "Press", "Extruder", "Molder", "Former", "Welder", "Solder", "Riveter",
           "Bolter", "Screwer", "Assembler", "Tester", "Inspector" >>,
      synthesis_types |->
        << "fm", "subtractive", "wavetable", "granular", "physical_modeling", "additive", "noise",
           "feedback", "hybrid", "sample_based" >>,
      genres |->
        << "Industrial", "Mechanical", "Dark", "Rhythmic", "Percussion", "Texture", "Aggressive",
           "Ambient" >> ],
    [ name |-> "scientific",
      range |-> << 401, 500 >>,
      prefixes |->
        << "Superposition", "Entanglement", "Heisenberg", "Schrödinger", "Quantum", "Planck",
           "Wave Function", "Photon", "Antiparticle", "Qubit", "Strange Attractor", "Butterfly",
           "Logistic", "Lorenz", "Mandelbrot", "Bifurcation", "Chaos", "Sensitive", "Strange Loop",
           "Attractor", "Fractal", "Julia", "Sierpinski", "Koch", "Apollonian", "Droste",
           "Barnsley", "Menger", "Möbius", "Klein", "Toroidal", "Genus", "Knot", "Handle",
           "Topological", "Surface", "Prime", "Sieve", "RSA", "Fermat", "Goldbach", "Mersenne",
           "Twin Prime", "Riemann", "Modular", "Fibonacci", "Golden Ratio", "Spiral", "Phyllotaxis",
           "Nautilus", "Entropy", "Thermal", "Second Law", "Heat Death", "Boltzmann", "Temperature",
           "Phase Transition", "Equilibrium", "Reversibility", "Black Body", "Doppler",
           "Time Dilation", "Spacetime", "Gravitational", "Light Cone", "Frame Dragging",
           "Relativistic", "Singularity", "String", "Superstring", "Higgs", "Gauge", "Quark",
           "Gluon", "Lepton", "Muon", "Neutrino", "Hadron", "Double Slit", "Interference",
           "Standing Wave", "Node", "Beat Frequency", "Phase Coherence", "Diffraction", "Resonance",
           "Harmonic", "Overtone", "Formant", "Coupled" >>,
      synthesis_types |->
        << "fm", "wavetable", "additive", "granular", "subtractive", "feedback", "hybrid", "noise",
           "physical_modeling", "sample_based" >>,
      genres |->
        << "Experimental", "Ambient", "Abstract", "Mathematical", "Psychoacoustic", "Electronic",
           "Drone", "Generative" >> ],
    [ name |-> "world_instruments",
      range |-> << 501, 600 >>,
      prefixes |->
        << "Gamelan", "Sitar", "Tabla", "Didgeridoo", "Kalimba", "Mbira", "Koto", "Shamisen",
           "Erhu", "Pipa", "Oud", "Santoor", "Balalaika", "Bouzouki", "Hurdy Gurdy", "Bagpipe",
           "Accordion", "Harmonium", "Throat Singing", "Overtone", "Bell", "Gong", "Singing Bowl",
           "Wind Chimes", "Music Box", "Carillon", "Glass Harmonica", "Waterphone", "Hang Drum",
           "Jaw Harp", "Bullroarer", "Daegeum", "Hulusi", "Bowed Psaltery", "Steelpan", "Tar",
           "Qin", "Saz", "Ney", "Nai", "Berimbau", "Riq", "Doumbek", "Ud", "Kemençe", "Suling",
           "Bamboo", "Rebab", "Cimbalom", "Zither", "Dulcimer", "Autoharp", "Lyre", "Harp",
           "Kantele", "Bandura", "Gusli", "Kokle", "Jouhikko", "Talharpa", "Langspil",
           "Hardingfele", "Nyckelharpa", "Säckpipa", "Seljefløyte", "Bukkehorn", "Lur",
           "Birch Trumpet", "Willow Flute", "Jew's Harp", "Langspil", "Fidla", "Þjóðhátíð",
           "Bumbulum", "Cuíca", "Pandeiro", "Surdo", "Repique", "Tamborim", "Agogô", "Ganzá",
           "Reco-Reco", "Chocalho", "Xequerê", "Caxixi", "Afoxé", "Atabaque", "Alfaia", "Zabumba",
           "Triângulo", "Maracatu", "Berimbau", "Conga", "Bongo", "Timbales", "Güiro", "Maracas",
           "Claves" >>,
      synthesis_types |->
        << "fm", "additive", "physical_modeling", "granular", "wavetable", "sample_based", "hybrid",
           "subtractive", "feedback", "noise" >>,
      genres |->
        << "World", "Ethnic", "Meditative", "Percussive", "Traditional", "Experimental", "Ambient",
           "Expressive" >> ],
    [ name |-> "space_cosmic",
      range |-> << 601, 700 >>,
      prefixes |->
        << "Pulsar", "Magnetar", "Neutron", "Quasar", "Black Hole", "Event Horizon", "Accretion",
           "Relativistic", "Hawking", "Supernova", "Stellar", "Cosmic", "Solar Wind", "Nebula",
           "Dust Cloud", "Emission", "Reflection", "Planetary", "Pillars", "Dark Nebula",
           "Solar Flare", "Coronal", "Prominence", "Heliosphere", "Photosphere", "Magnetosphere",
           "Ionosphere", "Radiation Belt", "Solar Cycle", "Aurora", "Green Glow", "Van Allen",
           "Proton Event", "Ray Shower", "Cherenkov", "Bremsstrahlung", "Cascade", "Muon Decay",
           "Saturn Rings", "Cassini", "Shepherd", "Ice Particle", "Dust Ring", "Ring Resonance",
           "Orbital", "Asteroid", "Meteor", "Meteorite", "Ablation", "Atmospheric", "Comet",
           "Nucleus", "Tail", "Sublimation", "Coma", "Radio Pulsar", "Radio Quiet", "Pulsar Wind",
           "Fast Radio", "Repeating FRB", "Dispersion", "Pulse Profile", "Radio Morphology",
           "Synchrotron", "Betatron", "Cyclotron", "Plasma", "Birkeland", "Alfven",
           "Radio Telescope", "Antenna", "Signal", "Noise Floor", "Interference",
           "Microwave Background", "Temperature", "Acoustic Peaks", "Gravitational Wave", "Merger",
           "LIGO", "Ringdown", "Binary", "Dark Matter", "Halo", "WIMP", "Axion",
           "Spaghettification", "Photon Sphere", "Naked Singularity", "White Hole", "Wormhole",
           "Kerr", "Reissner", "Tensor", "Metric", "Christoffel", "Ricci", "Einstein" >>,
      synthesis_types |->
        << "fm", "wavetable", "additive", "granular", "subtractive", "noise", "feedback", "hybrid",
           "sample_based", "physical_modeling" >>,
      genres |->
        << "Sci-Fi", "Ambient", "Dark", "Cinematic", "Experimental", "Ethereal", "Drone",
           "Generative" >> ],
    [ name |-> "biological",
      range |-> << 701, 800 >>,
      prefixes |->
        << "Helix", "Ribosome", "Mitochondria", "Synapse", "Heartbeat", "Breathing", "Digestion",
           "Blood", "Muscle", "Bone", "Skin", "Hair", "Root", "Photon", "Mycelium", "Spore",
           "Bacterial", "Viral", "Parasite", "Symbiosis", "Metamorphosis", "Cocoon", "Egg", "Birth",
           "Decay", "Decomposition", "Fossil", "Evolution", "Mutation", "Adaptation", "Axon",
           "Dendrite", "Ganglion", "Glial", "Vesicle", "Receptor", "Neurotransmitter", "Soma",
           "Neuropeptide", "Potassium", "Calcium", "GABA", "Glutamate", "Dopamine", "Serotonin",
           "Cortisol", "Adrenaline", "Melatonin", "Endorphin", "Oxytocin", "Insulin", "Cortex",
           "Cerebellum", "Hippocampus", "Amygdala", "Thalamus", "Pineal", "Pituitary",
           "Hypothalamus", "Cerebral", "Nerve", "Glial Scar", "White Matter", "Gray Matter",
           "Synaptogenesis", "Myelin", "Membrane", "Vesicular", "Retrograde", "Presynaptic",
           "Postsynaptic", "Heterosynaptic", "Homosynaptic", "Neuromuscular", "Motor Neuron",
           "Proprioception", "Cutaneous", "Nociception", "Thermoreception", "Chemoreception",
           "Photoreception", "Equilibrium", "Temporal Bone", "Cochlear", "Hair Cell", "Vestibular",
           "Organ of Corti", "Endolymph", "Perilymph", "Stapes", "Ossicle", "Ear Canal", "Tympanum",
           "Auditory Cortex" >>,
      synthesis_types |->
        << "fm", "feedback", "granular", "wavetable", "additive", "subtractive", "hybrid", "noise",
           "sample_based", "physical_modeling" >>,
      genres |->
        << "Experimental", "Ambient", "Organic", "Meditative", "Dark", "Electronic",
           "Psychoacoustic", "Generative" >> ],
    [ name |-> "experimental",
      range |-> << 801, 900 >>,
      prefixes |->
        << "Escher", "Paradox", "Hypnagogic", "Hallucination", "Synesthetic", "Temporal",
           "Parallel", "Glitch Reality", "Inverted", "Recursive", "Impossible", "Ego Death",
           "Consciousness", "Rebirth", "Memory Decay", "Uncanny Valley", "Liminal", "Cosmic Horror",
           "Abstract", "Color-Sound", "Taste-Timbre", "Thought", "Memetic", "Infinite Regression",
           "Broken Physics", "Quantum Superposition", "Time Loop", "Alternate Dimension",
           "Synapse Misfire", "Void", "Möbius", "Dream", "Perception", "Entropy", "Echo Nowhere",
           "Consciousness Download", "Backwards Evolution", "Probability Cloud", "Inverse Mirror",
           "Nested Consciousness", "Artifact", "Reality Seam", "Dreamcatcher", "Letter Frequencies",
           "Ego Fragment", "Entropy Crystal", "Hyperbolic", "Threshold", "Memetic Infection",
           "Broken Causality", "Alternate Timeline", "Emotion Mapping", "Identity Processor",
           "Probability", "Void Resonance", "Decay Memory", "Shape Tones", "Inverted Envelope",
           "Eternal Moment", "Parallel Perception", "Thought-Space", "Glitch Consciousness",
           "Backwards Speech", "Membrane", "Echo Chamber", "Kaleidoscope", "Void Creature",
           "Consciousness Cascade", "Scent-Sound", "Entropy Reversal", "Impossible Interval",
           "Dream Logic", "Membrane Between", "Ego Death Progression", "Recursive Dream",
           "Motion-Sound", "Quantum Foam", "Alternate Logic", "Conscious Feedback",
           "Taste-Color-Sound", "Liminal Dream", "Thought Crystal", "Broken Mirror",
           "Parallel Leak", "Pain-Sound", "Void Echo", "Impossible Object",
           "Consciousness Threshold", "Recursive Nest", "Dream-Logic", "Electromagnetic",
           "Entropy-Driven", "Perceptual", "Time-Reversed", "Paradox Resonator", "Gravity-Sound",
           "Void Between" >>,
      synthesis_types |->
        << "fm", "granular", "hybrid", "additive", "noise", "feedback", "wavetable", "subtractive",
           "physical_modeling", "sample_based" >>,
      genres |->
        << "Experimental", "Ambient", "Weird", "Psychoacoustic", "Glitch", "Surreal", "Abstract",
           "Unsettling" >> ],
    [ name |-> "generative",
      range |-> << 901, 1000 >>,
      prefixes |->
        << "Conway Life", "Wolfram", "L-System", "Genetic Algorithm", "Markov Chain",
           "Perlin Noise", "Flocking", "Ant Colony", "Lorenz", "Turing Pattern", "Rossler", "Henon",
           "Chua", "Ikeda", "Tent Map", "Baker Map", "Horseshoe", "Arnold", "Standard Map",
           "Chirikov", "Logistic", "Mandelbrot", "Julia", "Newton", "Halley", "Householder",
           "Secant", "Bisection", "False Position", "Fixed Point", "Picard", "Banach",
           "Contraction", "Lipschitz", "Cauchy", "Euler", "Runge-Kutta", "Adams", "Milne",
           "Hamming", "Predictor", "Corrector", "Multistep", "Linear Multistep",
           "Backward Difference", "Gear", "BDF", "Trapezoidal", "Midpoint", "Heun", "RK2", "RK4",
           "RKF45", "Dormand", "Prince", "Cash-Karp", "Bogacki", "Shampine", "Fehlberg", "Verner",
           "Butcher", "Singly Diagonal", "Embedded", "Adaptive", "Variable Step", "Dense Output",
           "Continuous", "Interpolating", "Collocation", "Galerkin", "Petrov", "Spectral",
           "Finite Element", "Boundary Element", "Finite Volume", "Finite Difference",
           "Pseudospectral", "Chebyshev", "Legendre", "Hermite", "Laguerre", "Jacobi", "Gegenbauer",
           "Ultraspherical", "Associated Legendre", "Spherical Harmonic", "Zernike", "Bessel",
           "Hankel", "Neumann", "Struve", "Airy", "Scorer", "Kelvin", "Lommel", "Anger", "Weber" >>,
      synthesis_types |->
        << "hybrid", "wavetable", "additive", "granular", "feedback", "noise", "fm", "subtractive",
           "sample_based", "physical_modeling" >>,
      genres |->
        << "Generative", "Ambient", "Experimental", "Glitch", "Algorithmic", "Chaotic",
           "Self-Organizing", "Emergent" >> ]
  >>

Chars ==
  "computer_history" :> << "c", "o", "m", "p", "u", "t", "e", "r", "_", "h", "i", "s", "t", "o", "r", "y" >>
  @@ "vintage_synths" :> << "v", "i", "n", "t", "a", "g", "e", "_", "s", "y", "n", "t", "h", "s" >>
  @@ "natural_phenomena" :> << "n", "a", "t", "u", "r", "a", "l", "_", "p", "h", "e", "n", "o", "m", "e", "n", "a" >>
  @@ "industrial" :> << "i", "n", "d", "u", "s", "t", "r", "i", "a", "l" >>
  @@ "scientific" :> << "s", "c", "i", "e", "n", "t", "i", "f", "i", "c" >>
  @@ "world_instruments" :> << "w", "o", "r", "l", "d", "_", "i", "n", "s", "t", "r", "u", "m", "e", "n", "t", "s" >>
  @@ "space_cosmic" :> << "s", "p", "a", "c", "e", "_", "c", "o", "s", "m", "i", "c" >>
  @@ "biological" :> << "b", "i", "o", "l", "o", "g", "i", "c", "a", "l" >>
  @@ "experimental" :> << "e", "x", "p", "e", "r", "i", "m", "e", "n", "t", "a", "l" >>
  @@ "generative" :> << "g", "e", "n", "e", "r", "a", "t", "i", "v", "e" >>

features ==
  << "oscillator coupling", "harmonic mapping", "spectral morphing", "granular density",
     "feedback routing", "modulation matrix", "wavetable scanning", "physical resonance",
     "envelope shaping", "filter topology", "chaos modulation", "fractal generation",
     "pattern sequencing", "stochastic triggering", "recursive feedback", "harmonic series",
     "ring modulation", "frequency shifting", "phase distortion", "wavefolding",
     "sample rate reduction", "bit crushing", "spectral freeze", "time stretching",
     "pitch shifting", "formant filtering", "comb filtering", "allpass diffusion",
     "convolution", "granular freeze", "spectral blur", "harmonic excitation" >>

(* role_words with its last word missing.                                  *)
role_words_seven ==
  << "Engine", "Generator", "Oscillator", "Filter", "Processor", "Modulator",
     "Resonator" >>

(* The role words of line 108: the literal list random.choice draws from.  *)
role_words ==
  << "Engine", "Generator", "Oscillator", "Filter", "Processor", "Modulator",
     "Resonator", "Sequencer" >>

(* The header row of line 98.                                              *)
header ==
  << "id", "name", "description", "synthesis_type", "key_feature", "genre_tags",
     "weirdness_level" >>

(* prefix.lower() (lines 84-92): the prefix, tagged as lowered.            *)
Lower(prefix) == [s |-> prefix, lower |-> TRUE]

(* {prefix} in an f-string (lines 83, 85): the prefix as it is.            *)
Plain(prefix) == [s |-> prefix, lower |-> FALSE]

(* templates (lines 82-93): each f-string as <<text before, the            *)
(* interpolated prefix, text after>>.                                      *)
templates(prefix) ==
  << << "", Plain(prefix), "-inspired synthesis with unique timbral characteristics" >>,
     << "Models ", Lower(prefix), " behavior using advanced DSP techniques" >>,
     << "", Plain(prefix), " patterns drive oscillator and modulation parameters" >>,
     << "Physical modeling of ", Lower(prefix), " acoustic properties" >>,
     << "Granular processing inspired by ", Lower(prefix), " textures" >>,
     << "FM synthesis capturing ", Lower(prefix), " harmonic relationships" >>,
     << "Wavetable morphing based on ", Lower(prefix), " waveforms" >>,
     << "Additive synthesis recreating ", Lower(prefix), " spectra" >>,
     << "Feedback network simulating ", Lower(prefix), " dynamics" >>,
     << "Hybrid synthesis combining multiple ", Lower(prefix), " characteristics" >> >>

(* generate_description (lines 81-94): random.choice(templates), the draw  *)
(* being the position chosen.  The domain argument is not used.            *)
generate_description(prefix, domain, choice) == templates(prefix)[choice]

(* needle in hay (line 113), on character sequences: Python's substring    *)
(* test.                                                                   *)
Contains(needle, hay) ==
  \E s \in 0..(Len(hay) - Len(needle)) :
     \A j \in 1..Len(needle) : hay[s + j] = needle[j]

(* min(a, b) (line 112).                                                   *)
Min(a, b) == IF a < b THEN a ELSE b

(* ";".join(xs) (line 112): the elements with ";" between them.            *)
Join(xs) ==
  [j \in 1..(IF Len(xs) = 0 THEN 0 ELSE 2 * Len(xs) - 1) |->
     IF j % 2 = 1 THEN xs[(j + 1) \div 2] ELSE ";"]

(* Sample drawing with replacement, as random.choices(population, k=k).    *)
SampleWithReplacement(population, k) ==
  { [j \in 1..k |-> population[p[j]]] : p \in [1..k -> 1..Len(population)] }

(* The outcomes of random.sample(population, k) (line 112): the elements   *)
(* at k pairwise different positions, in the order drawn.                  *)
Sample(population, k) ==
  { [j \in 1..k |-> population[p[j]]] :
      p \in { q \in [1..k -> 1..Len(population)] :
                \A a, b \in 1..k : a # b => q[a] # q[b] } }

(* WeirdnessRange with the test of line 113 inverted (the "not" dropped).  *)
WeirdnessRangeInverted(domain_name) ==
  IF Contains(Chars["experimental"], Chars[domain_name])
  THEN << 2, 9 >>
  ELSE << 6, 10 >>

(* The arguments of random.randint on line 113, chosen by the substring    *)
(* test on the domain key.                                                 *)
WeirdnessRange(domain_name) ==
  IF ~Contains(Chars["experimental"], Chars[domain_name])
  THEN << 2, 9 >>
  ELSE << 6, 10 >>

(* The outcomes of random.randint(a, b): the integers a..b, both ends      *)
(* included.                                                               *)
RandInt(r) == r[1]..r[2]

(* PrefixAt that stops at the last prefix instead of wrapping around.      *)
PrefixAtClamped(prefixes, i) == prefixes[Min(i, Len(prefixes) - 1) + 1]

(* prefixes[i % len(prefixes)] (line 107); Python indexes from 0.          *)
PrefixAt(prefixes, i) == prefixes[(i % Len(prefixes)) + 1]

(* SynthTypeAt cycling through one type too few.                           *)
SynthTypeAtShortCycle(synth_types, i) == synth_types[(i % (Len(synth_types) - 1)) + 1]

(* SynthTypeAt counting the positions from 1.                              *)
SynthTypeAtFromOne(synth_types, i) == synth_types[((i + 1) % Len(synth_types)) + 1]

(* synth_types[i % len(synth_types)] (line 110).                           *)
SynthTypeAt(synth_types, i) == synth_types[(i % Len(synth_types)) + 1]

(* The role word of line 108: "Synth" when random.random() > 0.5, else     *)
(* random.choice of the role words; gt is the outcome of the comparison.   *)
RoleWord(gt, choice) == IF gt THEN "Synth" ELSE role_words[choice]

(* name (line 108): f"{prefix} {role word}".                               *)
Name(prefix, role) == << prefix, " ", role >>

(***************************************************************************)
(* One iteration's draws from the random source (lines 108-113), in the    *)
(* order the iteration makes them:                                         *)
(*   gt         random.random() > 0.5                          (line 108)  *)
(*   role       the position random.choice picks among the role words,     *)
(*              drawn only when gt is false                     (line 108)  *)
(*   template   the position random.choice picks in templates   (line 94)  *)
(*   feature    the position random.choice picks in features   (line 111)  *)
(*   genre      the list random.sample returns                 (line 112)  *)
(*   weirdness  the integer random.randint returns             (line 113)  *)
(* BaseDraw is the first outcome of each.                                  *)
(***************************************************************************)
BaseDraw(domain) ==
  [ gt |-> TRUE,
    role |-> 1,
    template |-> 1,
    feature |-> 1,
    genre |-> [j \in 1..Min(3, Len(domain.genres)) |-> domain.genres[j]],
    weirdness |-> WeirdnessRange(domain.name)[1] ]

(***************************************************************************)
(* The draws an iteration is checked with.  The six draws are separate     *)
(* calls and each feeds one field of the row, so every outcome of every    *)
(* single draw is taken, the other draws of the iteration being at their   *)
(* first outcome; the full product (7,741,440 rows per id) is not.         *)
(***************************************************************************)
Draws(domain) ==
  LET b == BaseDraw(domain)
  IN    {b}
     \cup { [b EXCEPT !.gt = FALSE, !.role = c] : c \in 1..Len(role_words) }
     \cup { [b EXCEPT !.template = c] : c \in 1..Len(templates("")) }
     \cup { [b EXCEPT !.feature = c] : c \in 1..Len(features) }
     \cup { [b EXCEPT !.genre = g] :
              g \in Sample(domain.genres, Min(3, Len(domain.genres))) }
     \cup { [b EXCEPT !.weirdness = w] : w \in RandInt(WeirdnessRange(domain.name)) }

(* The list handed to writer.writerow on line 115, built by lines 107-113  *)
(* for the id idx at position i of the domain's range.                     *)
MakeRow(domain, i, idx, draw) ==
  LET prefix == PrefixAt(domain.prefixes, i)
  IN  [ id |-> idx,
        name |-> Name(prefix, RoleWord(draw.gt, draw.role)),
        description |-> generate_description(prefix, domain.name, draw.template),
        synthesis_type |-> SynthTypeAt(domain.synthesis_types, i),
        key_feature |-> features[draw.feature],
        genre_tags |-> Join(draw.genre),
        weirdness_level |-> draw.weirdness ]

(* InRange with the end of the range left out: range(start, end).          *)
InRangeExclusive(range, i) == range[1] + i < range[2]

(* range(start, end + 1) (line 106) has an element at position i.          *)
InRange(range, i) == range[1] + i < range[2] + 1

(* IdAt counting the positions from 1: enumerate(..., 1) used as offset.   *)
IdAtFromOne(range, i) == range[1] + i + 1

(* idx (line 106): the element of range(start, end + 1) at position i.     *)
IdAt(range, i) == range[1] + i

(* A line of the output file, as the tuple of its cells.  Of a data line   *)
(* the file keeps the id and synthesis_type cells, which the loop position *)
(* fixes; all seven cells are those of row while the line is being         *)
(* written.                                                                *)
DataLine(r) == << r.id, r.synthesis_type >>

(***************************************************************************)
(* The state.                                                              *)
(*   pc       the statement the script is at: "open" (96), "writeheader"   *)
(*            (98), "for_domain" (100), "for_idx" (106), "writerow" (115), *)
(*            "exit_with" (leaving the with block), "print" (117), "done"  *)
(*            (ended normally), "failed" (ended by an unhandled error)     *)
(*   is_open  the file object f is open                                    *)
(*   file     the lines written to the destination by this run             *)
(*   d        the number of domains the outer loop has taken               *)
(*   i        the position enumerate has reached in the current range      *)
(*   row      the list handed to writer.writerow, while pc = "writerow";   *)
(*            empty otherwise (the locals of an iteration are not read     *)
(*            again once the row is written)                               *)
(*   printed  the number of completion messages printed                    *)
(***************************************************************************)
VARIABLES pc, is_open, file, d, i, row, printed

vars == << pc, is_open, file, d, i, row, printed >>

Init ==
  /\ pc = "open"
  /\ is_open = FALSE
  /\ file = << >>
  /\ d = 0
  /\ i = 0
  /\ row = {}
  /\ printed = 0

(* Raise with f left as it is: the file opened without a with block.       *)
RaiseLeavingOpen ==
  /\ pc' = "failed"
  /\ row' = {}
  /\ UNCHANGED << is_open, file, d, i, printed >>

(* An unhandled OSError: leaving the with block closes f if it was opened, *)
(* and the script ends without reaching line 117.                          *)
Raise ==
  /\ pc' = "failed"
  /\ is_open' = FALSE
  /\ row' = {}
  /\ UNCHANGED << file, d, i, printed >>

(* Line 96: open(..., 'w') truncates the destination, or raises.           *)
Open ==
  /\ pc = "open"
  /\ \/ /\ pc' = "writeheader"
        /\ is_open' = TRUE
        /\ file' = << >>
        /\ UNCHANGED << d, i, row, printed >>
     \/ Raise

(* Line 98: the header row is written, or the write raises.                *)
WriteHeader ==
  /\ pc = "writeheader"
  /\ \/ /\ pc' = "for_domain"
        /\ file' = Append(file, header)
        /\ UNCHANGED << is_open, d, i, row, printed >>
     \/ Raise

(* Lines 100-104: the outer loop takes the next domain, or is exhausted.   *)
ForDomain ==
  /\ pc = "for_domain"
  /\ \/ /\ d < Len(domains)
        /\ d' = d + 1
        /\ i' = 0
        /\ pc' = "for_idx"
        /\ UNCHANGED << is_open, file, row, printed >>
     \/ /\ d = Len(domains)
        /\ pc' = "exit_with"
        /\ UNCHANGED << is_open, file, d, i, row, printed >>

(* Lines 106-114: the inner loop takes the next id and builds its row     *)
(* with one of the given draws, or is exhausted.                           *)
ForIdxDrawing(draws) ==
  /\ pc = "for_idx"
  /\ \/ /\ InRange(domains[d].range, i)
        /\ \E draw \in draws :
             row' = { MakeRow(domains[d], i, IdAt(domains[d].range, i), draw) }
        /\ pc' = "writerow"
        /\ UNCHANGED << is_open, file, d, i, printed >>
     \/ /\ ~InRange(domains[d].range, i)
        /\ pc' = "for_domain"
        /\ UNCHANGED << is_open, file, d, i, row, printed >>

(* The inner loop with the draws of Draws.                                 *)
ForIdx == ForIdxDrawing(Draws(domains[d]))

(* Line 115: the row is written and enumerate advances, or the write       *)
(* raises.                                                                 *)
WriteRow ==
  /\ pc = "writerow"
  /\ \/ /\ \E r \in row : file' = Append(file, DataLine(r))
        /\ i' = i + 1
        /\ row' = {}
        /\ pc' = "for_idx"
        /\ UNCHANGED << is_open, d, printed >>
     \/ Raise

(* ExitWith with the print of line 117 indented into the with block: the   *)
(* message is printed while f is still open, and the block is left.        *)
ExitWithPrinting ==
  /\ pc = "exit_with"
  /\ printed' = printed + 1
  /\ is_open' = FALSE
  /\ pc' = "done"
  /\ UNCHANGED << file, d, i, row >>

(* Leaving the with block: f is closed; the flush of close may raise, and  *)
(* f is closed then too.                                                   *)
ExitWith ==
  /\ pc = "exit_with"
  /\ \/ /\ pc' = "print"
        /\ is_open' = FALSE
        /\ UNCHANGED << file, d, i, row, printed >>
     \/ Raise

(* Line 117: the completion message.                                       *)
PrintDone ==
  /\ pc = "print"
  /\ printed' = printed + 1
  /\ pc' = "done"
  /\ UNCHANGED << is_open, file, d, i, row >>

Next ==
  \/ Open
  \/ WriteHeader
  \/ ForDomain
  \/ ForIdx
  \/ WriteRow
  \/ ExitWith
  \/ PrintDone

Spec == Init /\ [][Next]_vars

(***************************************************************************)
(*                              Properties                                 *)
(***************************************************************************)

(* The data lines of the file: all lines but the first.                    *)
DataLines == { k \in 1..Len(file) : k > 1 }

(* The domains whose declared range holds id.                              *)
Owners(id) ==
  { k \in 1..Len(domains) : domains[k].range[1] <= id /\ id <= domains[k].range[2] }

(* The elements of a sequence.                                             *)
Elems(xs) == { xs[k] : k \in 1..Len(xs) }

(* C1: the file is at every point the header row followed by the data rows *)
(* with the ids 1..k in that order, and once the with block is left        *)
(* without an error it is the header row and exactly 1000 data rows, ids   *)
(* 1..1000.                                                                *)
C1_HeaderThenIds ==
  /\ \A k \in 1..Len(file) :
       IF k = 1 THEN file[k] = header
                ELSE Len(file[k]) = 2 /\ file[k][1] = k - 1
  /\ pc \in {"writeheader"} => Len(file) = 0
  /\ pc \in {"for_domain", "for_idx", "writerow", "exit_with"} => Len(file) >= 1
  /\ pc \in {"exit_with", "print", "done"} => Len(file) = 1 + 1000

C1_Witness ==
  /\ pc = "done"
  /\ Len(file) = 1001
  /\ file[1] = header
  /\ file[2][1] = 1
  /\ file[1001][1] = 1000

(* The declared ranges partition 1..1000: every id has exactly one owner.  *)
RangesPartition == \A id \in 1..1000 : Cardinality(Owners(id)) = 1

(* C2: the ten ranges partition 1..1000 with no gap and no overlap, and    *)
(* the row of an id is built in the iteration of the one domain that owns  *)
(* the id, from that domain's prefixes, synthesis types and genres; id 1   *)
(* is computer_history's, id 101 vintage_synths', id 1000 generative's.    *)
C2_OwnerDomain ==
  /\ Len(domains) = 10
  /\ RangesPartition
  /\ \A k \in 1..(Len(domains) - 1) : domains[k + 1].range[1] = domains[k].range[2] + 1
  /\ \A r \in row :
       /\ Owners(r.id) = {d}
       /\ r.name[1] \in Elems(domains[d].prefixes)
       /\ r.synthesis_type \in Elems(domains[d].synthesis_types)
       /\ \A k \in 1..Len(r.genre_tags) :
            r.genre_tags[k] # ";" => r.genre_tags[k] \in Elems(domains[d].genres)
       /\ r.id = 1 => domains[d].name = "computer_history"
       /\ r.id = 101 => domains[d].name = "vintage_synths"
       /\ r.id = 1000 => domains[d].name = "generative"

C2_Witness ==
  \E r \in row : r.id = 1000 /\ domains[d].name = "generative" /\ r.name[1] = "L-System"

(* C3 as stated: the row with id 100 has the prefix "Conference", the last *)
(* of the 100 prefixes of computer_history.                                *)
C3_AsStated ==
  \A r \in row :
     r.id = 100 => r.name[1] = "Conference" /\ Len(domains[d].prefixes) = 100

(* C3, amended: computer_history has 94 prefixes, so position 99 wraps     *)
(* around to prefixes[99 mod 94] = prefixes[5], "Punch Card"; "Conference" *)
(* is the prefix of id 94.                                                 *)
C3_WrapsToPunchCard ==
  /\ domains[1].name = "computer_history"
  /\ domains[1].range = << 1, 100 >>
  /\ Len(domains[1].prefixes) = 94
  /\ domains[1].prefixes[94] = "Conference"
  /\ \A r \in row :
       /\ r.id = 100 => r.name[1] = "Punch Card" /\ r.name[1] = domains[1].prefixes[5 + 1]
       /\ r.id = 94 => r.name[1] = "Conference"

C3_Witness == \E r \in row : r.id = 100 /\ r.name[1] = "Punch Card" /\ i = 99 /\ d = 1

(* s.split(";") of a joined string: the pieces between the separators,     *)
(* each as the sequence of the parts it is made of.                        *)
RECURSIVE Split(_)
Split(xs) ==
  IF \A k \in 1..Len(xs) : xs[k] # ";"
  THEN << xs >>
  ELSE LET k == CHOOSE j \in 1..Len(xs) :
                   xs[j] = ";" /\ \A m \in 1..(j - 1) : xs[m] # ";"
       IN  << SubSeq(xs, 1, k - 1) >> \o Split(SubSeq(xs, k + 1, Len(xs)))

(* C4: genre_tags split on ";" is exactly 3 strings (min(3, number of the  *)
(* domain's genres), every domain having 8), pairwise different, each a    *)
(* genre of the domain that owns the row's id.                             *)
C4_ThreeDistinctGenres ==
  /\ \A k \in 1..Len(domains) : Min(3, Len(domains[k].genres)) = 3
  /\ \A r \in row :
       LET tags == Split(r.genre_tags)
       IN  /\ Len(tags) = 3
           /\ \A k \in 1..3 : Len(tags[k]) = 1
           /\ \A a, b \in 1..3 : a # b => tags[a] # tags[b]
           /\ \A k \in 1..3 :
                \A o \in Owners(r.id) : tags[k][1] \in Elems(domains[o].genres)

C4_Witness ==
  \E r \in row :
     /\ r.id = 150
     /\ Split(r.genre_tags) = << << "Progressive" >>, << "Acid" >>, << "Synthwave" >> >>

(* C5: weirdness_level is in 6..10 for the rows of the domain with the key *)
(* "experimental", which are the ids 801..900, and in 2..9 for every other *)
(* row, those of "generative" (901..1000) included.                        *)
C5_WeirdnessRange ==
  \A r \in row :
     /\ (domains[d].name = "experimental") <=> (r.id \in 801..900)
     /\ r.id \in 801..900 => r.weirdness_level \in 6..10
     /\ r.id \notin 801..900 => r.weirdness_level \in 2..9
     /\ r.id \in 901..1000 => domains[d].name = "generative"

C5_Witness ==
  \E r \in row : r.id = 900 /\ r.weirdness_level = 10 /\ domains[d].name = "experimental"

(* The ten synthesis types.                                                *)
Vocabulary ==
  { "fm", "subtractive", "wavetable", "granular", "physical_modeling", "additive",
    "sample_based", "feedback", "noise", "hybrid" }

(* Every domain's synthesis-type list is the ten types in some order.      *)
ListsReorderVocabulary ==
  \A k \in 1..Len(domains) :
     /\ Len(domains[k].synthesis_types) = 10
     /\ Elems(domains[k].synthesis_types) = Vocabulary

(* The data lines of the file that carry an id of the range.               *)
LinesOf(range) == { k \in DataLines : range[1] <= file[k][1] /\ file[k][1] <= range[2] }

(* C6: every row's synthesis_type is one of the ten types, every domain's  *)
(* list is a reordering of the ten, and when the rows of a domain are      *)
(* written each of the ten types is the synthesis_type of one of them.     *)
C6_SynthesisVocabulary ==
  /\ Cardinality(Vocabulary) = 10
  /\ ListsReorderVocabulary
  /\ \A r \in row : r.synthesis_type \in Vocabulary
  /\ (pc = "for_idx" /\ ~InRange(domains[d].range, i)) =>
       { file[k][2] : k \in LinesOf(domains[d].range) } = Vocabulary
  /\ pc = "done" =>
       \A n \in 1..Len(domains) :
          { file[k][2] : k \in LinesOf(domains[n].range) } = Vocabulary

C6_Witness ==
  /\ pc = "for_idx"
  /\ d = 10
  /\ ~InRange(domains[d].range, i)
  /\ Cardinality(LinesOf(domains[d].range)) = 100
  /\ file[Len(file)][2] = "physical_modeling"

(* C8: a step that fails (opening, the header, a data row) writes nothing, *)
(* leaves f closed and the completion message unprinted and ends the run   *)
(* in the failed state, from which no step is taken: no retry, no further  *)
(* row, no message; the file keeps the lines written before the failure.   *)
C8_FailureAborts ==
  [][ /\ pc' = "failed" =>
           /\ file' = file
           /\ ~is_open'
           /\ printed' = 0
           /\ row' = {}
      /\ pc = "failed" => UNCHANGED vars
      /\ pc' = "done" => pc # "failed" /\ printed' = 1
    ]_vars

C8_Witness ==
  /\ pc = "failed"
  /\ ~is_open
  /\ printed = 0
  /\ Len(file) = 1 + 500
  /\ file[Len(file)][1] = 500
  /\ d = 6
  /\ i = 0

(* The rows the iteration at position i of domain k can build, one for     *)
(* each outcome of the draws.                                              *)
RowsAt(k, pos) ==
  { MakeRow(domains[k], pos, IdAt(domains[k].range, pos), draw) :
      draw \in Draws(domains[k]) }

(* C9: the row of the id at position pos of its domain's range has the     *)
(* prefix prefixes[pos mod len(prefixes)] and the synthesis type           *)
(* synthesis_types[pos mod len(synthesis_types)], each list indexed by its *)
(* own length, whatever the draws; id 1 has "Modem" and "fm", id 901       *)
(* "Conway Life".                                                          *)
C9_PositionIndexing ==
  /\ \A r \in row :
       LET dom == domains[d]
           pos == r.id - dom.range[1]
       IN  /\ pos = i
           /\ r.name[1] = dom.prefixes[(pos % Len(dom.prefixes)) + 1]
           /\ r.synthesis_type =
                dom.synthesis_types[(pos % Len(dom.synthesis_types)) + 1]
           /\ r.id = 1 => r.name[1] = "Modem" /\ r.synthesis_type = "fm"
           /\ r.id = 901 => r.name[1] = "Conway Life"
  /\ (pc = "for_idx" /\ InRange(domains[d].range, i)) =>
       Cardinality({ << r.name[1], r.synthesis_type >> : r \in RowsAt(d, i) }) = 1

C9_Witness ==
  \E r \in row :
     /\ r.id = 999
     /\ r.name[1] = "Wolfram"
     /\ r.synthesis_type = "sample_based"
     /\ r.weirdness_level = 9

(* The role words other than "Synth" that a row of the iteration at        *)
(* position pos of domain k can carry.                                     *)
AlternativeRoles(k, pos) == { r.name[3] : r \in RowsAt(k, pos) } \ {"Synth"}

(* The form of a name: the prefix of the row's position, one space, and    *)
(* "Synth" or one of the eight listed words.                               *)
NameForm(r) ==
  /\ Len(r.name) = 3
  /\ r.name[1] = domains[d].prefixes[(i % Len(domains[d].prefixes)) + 1]
  /\ r.name[2] = " "
  /\ r.name[3] \in { "Synth", "Engine", "Generator", "Oscillator", "Filter",
                     "Processor", "Modulator", "Resonator", "Sequencer" }

(* C10 as stated: the name is prefix, space, role word, and 7 role words   *)
(* other than "Synth" can occur.                                           *)
C10_AsStated ==
  /\ \A r \in row : NameForm(r)
  /\ (pc = "for_idx" /\ InRange(domains[d].range, i)) =>
       Cardinality(AlternativeRoles(d, i)) = 7

(* C10, amended: the name is prefix, space, role word, and the role words  *)
(* other than "Synth" that can occur are the 8 listed ones.                *)
C10_EightAlternatives ==
  /\ \A r \in row : NameForm(r)
  /\ (pc = "for_idx" /\ InRange(domains[d].range, i)) =>
       /\ Cardinality(AlternativeRoles(d, i)) = 8
       /\ AlternativeRoles(d, i) =
            { "Engine", "Generator", "Oscillator", "Filter", "Processor",
              "Modulator", "Resonator", "Sequencer" }

C10_Witness ==
  \E r \in row : r.id = 500 /\ r.name = << "Qubit", " ", "Sequencer" >>

(* The draws of an iteration in the runs whose order of events is          *)
(* followed to their end.  No statement's turn depends on a drawn value    *)
(* (the draws only fill fields of the row), so an iteration takes "Synth"  *)
(* or the first role word, its other draws being at their first outcome.   *)
OrderDraws(domain) ==
  { BaseDraw(domain), [BaseDraw(domain) EXCEPT !.gt = FALSE] }

FairNext ==
  \/ Open
  \/ WriteHeader
  \/ ForDomain
  \/ ForIdxDrawing(OrderDraws(domains[d]))
  \/ WriteRow
  \/ ExitWith
  \/ PrintDone

(* The script is one sequential process that is never blocked: whenever a  *)
(* statement can run, it runs.                                             *)
FairSpec == Init /\ [][FairNext]_vars /\ WF_vars(FairNext)

(* The order of the events of a run, step by step.                         *)
EventOrder ==
  /\ is_open' # is_open =>
       \/ pc = "open" /\ is_open' /\ file' = << >> /\ printed = 0
       \/ pc = "exit_with" /\ ~is_open' /\ Len(file) = 1 + 1000
       \/ pc' = "failed" /\ ~is_open'
  /\ file' # file =>
       /\ is_open /\ is_open'
       /\ printed = 0
       /\ \E line \in {header} \cup { DataLine(r) : r \in row } : file' = Append(file, line)
       /\ file'[1] = header
       /\ Len(file') > 1 =>
            /\ file'[Len(file')][1] = Len(file)
            /\ Owners(Len(file)) = {d}
  /\ d' # d => d' = d + 1 /\ Len(file) = domains[d'].range[1]
  /\ printed' # printed =>
       /\ printed = 0 /\ printed' = 1
       /\ ~is_open /\ ~is_open'
       /\ Len(file) = 1 + 1000
       /\ pc' = "done"
  /\ printed' > 0 => ~is_open' /\ Len(file') = 1 + 1000 /\ pc' = "done"

(* C11: the destination is opened, the header is written before any data   *)
(* row, the data rows are written one at a time in the order of the        *)
(* domains' declaration, the file is closed and only then the message is   *)
(* printed, once; the message is never printed with fewer than 1000 data   *)
(* rows written or with the file open; and a run in which no step fails    *)
(* ends normally.                                                          *)
C11_OrderAndTermination ==
  /\ [][EventOrder]_vars
  /\ [](pc # "failed") => <>(pc = "done" /\ printed = 1)

C11_Witness ==
  /\ pc = "done"
  /\ printed = 1
  /\ ~is_open
  /\ Len(file) = 1 + 1000
  /\ d = 10
  /\ i = 100

=============================================================================
